---------------------------- MODULE Spec2Model ----------------------------
(***************************************************************************)
(* A model of the cliconf plugins of network-engine: the command executor  *)
(* (send_command and its history), the enable_mode privilege guard, and    *)
(* get_config / edit_config of the IOS, ASA, EOS, VyOS and netmiko         *)
(* adapters.                                                               *)
(*                                                                         *)
(* One adapter instance serves one connection.  Every operation of the     *)
(* adapter is one action: the whole Python method, with every send it      *)
(* makes, is evaluated by an operator over a "call state" record and the   *)
(* action installs the result.  The transport (connection.send and         *)
(* connection.get_prompt) is external: what it answers in a call is an     *)
(* input of the action (the oracle orc and the prompt).                    *)
(*                                                                         *)
(* Texts whose characters the code inspects (prompts, responses) are       *)
(* sequences of one-character strings.  A candidate text is kept as the    *)
(* sequence of its lines (its split on the newline), each line a string    *)
(* without surrounding white space.  The plugins are Python 2 code         *)
(* (collections.Mapping, b'..' % str), so str and bytes coincide and       *)
(* to_bytes of an ASCII command leaves the command's characters as they    *)
(* are.                                                                    *)
(***************************************************************************)
EXTENDS Integers, Sequences, FiniteSets, TLC

(***************************************************************************)
(* Bounds of the exploration.                                              *)
(***************************************************************************)
MaxLines == 2      \* longest candidate text drawn from LineVocabulary
MaxGets == 2       \* get calls explored on one connection
MaxPrior == 1      \* get calls that may precede the configuration call
MaxQueries == 2    \* send_command, capability and fact calls explored
MaxDepth == 3      \* nested get_facts frames before the interpreter gives up

(***************************************************************************)
(* Input vocabularies.                                                     *)
(***************************************************************************)
Adapters == {"ios", "asa", "eos", "vyos", "netmiko"}

\* Prompts the transport may report: elevated with trailing white space,
\* user mode, and a prompt that holds '#' without ending in it.
Prompts == { <<"r", "#", " ">>, <<"r", ">">>, <<"#", "r">> }

\* Bodies the transport may answer with.
Responses == { <<>>, <<" ", "+", "x", " ">> }

Line1 == "interface Ethernet1"
Line2 == "description test"
LineVocabulary == {Line1, Line2, "end", "!comment", ""}

\* The lines whose first character is '!'.
BangLines == {"!comment"}

Scenario == <<Line1, Line2, "end">>

\* Two configuration commands with an empty line between them.
BlankScenario == <<Line1, "", Line2>>

SeqsUpTo(S, n) == UNION { [1..k -> S] : k \in 0..n }

\* Values of commit and replace: the default None, and True.
Flags == {"True", "None"}
Sources == {"running", "startup", "bogus"}
GetCommands == {"show version"}

\* Values of int(time.time()) when a session is named.
Clock == {1, 2}

\* Values of the environment variable ANSIBLE_EOS_USE_SESSIONS: not set, a
\* number, a text that is not a number.
EnvValues == {"unset", "0", "x"}

\* Values passed for sendonly, newline and prompt_retry_check.
ArgValues == {"True", "None", "yes"}

\* Values passed for nolog.
NologValues == {"True", "False"}

\* Keys asked of get_operations and of get_facts ("None": no key).
OperationKeys == {"None", "supports_commit", "supports_sessions"}
FactKeys == {"None", "network_os"}

\* Replies to the fact commands.  A JSON reply is kept as the sequence of its
\* tokens: the braces and, between them, the names of its members.
JsonFacts == <<"{", "version", "modelName", "hostname", "}">>
FactReplies == { <<" ", "+", "x", " ">>, <<"{", "}">>, JsonFacts }

\* Replies to the session probe: an empty listing, an error indicator.
ErrorWord == <<"e", "r", "r", "o", "r">>
ProbeReplies == { <<>>, <<"%", " ">> \o ErrorWord }

NoCandidate == [kind |-> "none", lines |-> <<>>]
TextCandidate(ls) == [kind |-> "text", lines |-> ls]
ListCandidate(ls) == [kind |-> "list", lines |-> ls]

Candidates ==
    {NoCandidate}
    \cup { TextCandidate(ls) : ls \in SeqsUpTo(LineVocabulary, MaxLines) \cup {Scenario} }
    \cup { ListCandidate(ls) : ls \in {<<>>, <<Line1>>, Scenario} }

(***************************************************************************)
(* Python values.                                                          *)
(***************************************************************************)
NoExc == [type |-> "None", msg |-> ""]
Exc(t, m) == [type |-> t, msg |-> m]

NoneVal == [isNone |-> TRUE, text |-> <<>>]
Val(t) == [isNone |-> FALSE, text |-> t]

\* str.strip() on a text given as its characters.
RECURSIVE LStrip(_)
LStrip(t) == IF t # <<>> /\ Head(t) = " " THEN LStrip(Tail(t)) ELSE t

RECURSIVE RStrip(_)
RStrip(t) ==
    IF t # <<>> /\ t[Len(t)] = " " THEN RStrip(SubSeq(t, 1, Len(t) - 1)) ELSE t

Strip(t) == RStrip(LStrip(t))

EndsWith(t, c) == t # <<>> /\ t[Len(t)] = c

\* str.strip() on a text given as its lines: the newline is white space, so
\* the empty lines at both ends go.
RECURSIVE LStripLines(_)
LStripLines(ls) == IF ls # <<>> /\ Head(ls) = "" THEN LStripLines(Tail(ls)) ELSE ls

RECURSIVE RStripLines(_)
RStripLines(ls) ==
    IF ls # <<>> /\ ls[Len(ls)] = ""
    THEN RStripLines(SubSeq(ls, 1, Len(ls) - 1))
    ELSE ls

\* str.split('\n') of the stripped text: the empty text splits into [''].
StripSplit(ls) ==
    LET s == RStripLines(LStripLines(ls)) IN IF s = <<>> THEN <<"">> ELSE s

\* str(list): the items quoted, separated by ", ", in brackets, on one line.
RECURSIVE ReprItems(_)
ReprItems(ls) ==
    IF ls = <<>> THEN ""
    ELSE "'" \o Head(ls) \o "'"
         \o (IF Tail(ls) = <<>> THEN "" ELSE ", " \o ReprItems(Tail(ls)))

\* to_text(obj): a text is returned as it is, any other object through
\* str(obj) (nonstring='simplerepr').
to_text(candidate) ==
    IF candidate.kind = "list"
    THEN <<"[" \o ReprItems(candidate.lines) \o "]">>
    ELSE candidate.lines

\* candidate = to_text(candidate).strip().split('\n')
CandidateLines(candidate) == StripSplit(to_text(candidate))

\* flag or False
OrFalse(flag) == IF flag = "None" THEN "False" ELSE flag

(***************************************************************************)
(* The device behind the transport, as far as the claims observe it: the   *)
(* CLI mode, the configuration session, the staged and the running         *)
(* configuration.                                                          *)
(***************************************************************************)
InitDevice ==
    [mode |-> "exec", session |-> "none", staged |-> {}, running |-> {"hostname r"}]

ShowCommands ==
    {"show version", "compare", "show session-config diffs",
     "show running-config", "show startup-config", "show configuration"}

IsSessionStart(cmd) ==
    /\ Len(cmd) > 18
    /\ \E t \in 0..9 : cmd = "configure session ansible_" \o ToString(t)

DeviceApply(os, dev, cmd) ==
    IF cmd \in ShowCommands THEN dev
    ELSE IF os = "vyos" THEN
        CASE cmd = "configure" ->
                [dev EXCEPT !.mode = "config", !.session = "active"]
          [] cmd = "commit" ->
                IF dev.session = "active"
                THEN [dev EXCEPT !.running = dev.running \cup dev.staged,
                                 !.staged = {}, !.session = "committed"]
                ELSE dev
          [] cmd = "exit discard" ->
                [dev EXCEPT !.mode = "exec", !.staged = {},
                            !.session = IF dev.session = "active" THEN "aborted"
                                        ELSE dev.session]
          [] OTHER ->
                IF dev.mode = "config"
                THEN [dev EXCEPT !.staged = dev.staged \cup {cmd}]
                ELSE dev
    ELSE IF os = "eos" THEN
        CASE IsSessionStart(cmd) ->
                [dev EXCEPT !.mode = "config", !.session = "active"]
          [] cmd = "rollback clean-config" ->
                IF dev.session = "active"
                THEN [dev EXCEPT !.staged = {"clean-config"}] ELSE dev
          [] cmd = "commit" ->
                IF dev.session = "active"
                THEN [dev EXCEPT !.running =
                                    IF "clean-config" \in dev.staged
                                    THEN dev.staged \ {"clean-config"}
                                    ELSE dev.running \cup dev.staged,
                                 !.staged = {}, !.session = "committed",
                                 !.mode = "exec"]
                ELSE dev
          [] cmd = "abort" ->
                IF dev.session = "active"
                THEN [dev EXCEPT !.staged = {}, !.session = "aborted",
                                 !.mode = "exec"]
                ELSE dev
          [] cmd = "configure" -> [dev EXCEPT !.mode = "config"]
          [] cmd = "end" -> [dev EXCEPT !.mode = "exec"]
          [] OTHER ->
                IF dev.session = "active"
                THEN [dev EXCEPT !.staged = dev.staged \cup {cmd}]
                ELSE IF dev.mode = "config"
                THEN [dev EXCEPT !.running = dev.running \cup {cmd}]
                ELSE dev
    ELSE IF os \in {"ios", "asa"} THEN
        IF cmd = "end" THEN [dev EXCEPT !.mode = "exec"]
        ELSE [dev EXCEPT !.running = dev.running \cup {cmd}]
    ELSE dev

(***************************************************************************)
(* The adapter instance and its connection.                                *)
(***************************************************************************)
VARIABLES
    network_os,   \* which Cliconf class the instance is
    history,      \* CliconfBase.history
    sent,         \* every command handed to connection.send, with its outcome
    device,       \* the device behind the transport
    gets,         \* get calls made so far
    configured,   \* a get_config or edit_config call has been made
    last,         \* the last call: its arguments, its pre-state, its outcome
    use_sessions_env,   \* the environment variable ANSIBLE_EOS_USE_SESSIONS
    device_operations,  \* the attribute _device_operations of the instance
    device_facts,       \* the attribute _device_facts of the instance
    closed,       \* the connection has been closed
    queries       \* send_command, capability and fact calls made so far

vars == <<network_os, history, sent, device, gets, configured, last,
          use_sessions_env, device_operations, device_facts, closed, queries>>

\* What the configuration calls and get leave alone.
instance == <<use_sessions_env, device_operations, device_facts, closed, queries>>

\* The attribute _device_operations: the class attribute of the IOS, ASA,
\* VyOS and netmiko classes, unset on an EOS instance until get_operations
\* has computed it.  An entry is "True", "False" or "absent" (no such key).
NoOperations ==
    [set |-> FALSE, commit |-> "absent", replace |-> "absent",
     diff |-> "absent", sessions |-> "absent"]

ClassOperations(os) ==
    CASE os = "eos" -> NoOperations
      [] os = "vyos" -> [set |-> TRUE, commit |-> "True", replace |-> "False",
                         diff |-> "True", sessions |-> "absent"]
      [] OTHER -> [set |-> TRUE, commit |-> "False", replace |-> "False",
                   diff |-> "False", sessions |-> "absent"]

\* The attribute _device_facts: unset until get_facts has computed it.  The
\* map holds network_os and the facts the code extracts from the replies;
\* they are kept as the stripped replies they are extracted from.
NoFacts == [set |-> FALSE, network_os |-> "", replies |-> <<>>]

\* What a capability or fact query returned: nothing, the whole operations
\* map, the whole facts map, or one entry of a map ("None" when the key is
\* not in the map).
NoResult ==
    [kind |-> "none", operations |-> NoOperations, facts |-> NoFacts,
     item |-> "None"]

\* A run of the network_config module: its inputs (check mode, the params
\* mapping, the reply to get_capabilities) and what it did (the edit_config
\* call it made, the changed flag of its result).
NoRun ==
    [check_mode |-> FALSE, config |-> "absent", commit |-> "False",
     replace |-> "False", capabilities |-> "none", can_commit |-> "None",
     can_replace |-> "None", can_diff |-> "None", called |-> FALSE,
     call_commit |-> "None", call_replace |-> "None", changed |-> "False"]

NoCall ==
    [op |-> "none", prompt |-> <<>>, candidate |-> NoCandidate,
     commit |-> "None", replace |-> "None", source |-> "running",
     command |-> "", status |-> "none", exc |-> NoExc, value |-> NoneVal,
     sendonly |-> "False", newline |-> "True", prompt_retry_check |-> "False",
     nolog |-> "True", key |-> "None", result |-> NoResult, run |-> NoRun,
     pre |-> [history |-> <<>>, sent |-> <<>>, device |-> InitDevice,
              device_operations |-> NoOperations, device_facts |-> NoFacts,
              op |-> "none", status |-> "none"]]

\* CliconfBase.__init__
Init ==
    /\ network_os \in Adapters
    /\ history = <<>>
    /\ sent = <<>>
    /\ device = InitDevice
    /\ gets = 0
    /\ configured = FALSE
    /\ last = NoCall
    /\ use_sessions_env \in (IF network_os = "eos" THEN EnvValues ELSE {"unset"})
    /\ device_operations = ClassOperations(network_os)
    /\ device_facts = NoFacts
    /\ closed = FALSE
    /\ queries = 0

(***************************************************************************)
(* The command executor.  A call state cs carries the instance state       *)
(* through one method call: history, sent, device, n (sends made in this   *)
(* call) and exc (the exception in flight, NoExc when there is none).      *)
(* The oracle orc is what the transport does in this call: the send number *)
(* failAt raises (0: none does); with dead, every later send raises as     *)
(* well (the channel is gone), otherwise only that command was rejected;   *)
(* resp is the body of every answer.                                       *)
(***************************************************************************)
Oracles(maxSends) ==
    { o \in [failAt : 0..maxSends, dead : BOOLEAN, resp : Responses] :
        o.dead => o.failAt # 0 }

Enter(os) == [os |-> os, history |-> history, sent |-> sent, device |-> device,
              n |-> 0, exc |-> NoExc, resp |-> <<>>]

SendFails(k, orc) ==
    /\ orc.failAt # 0
    /\ \/ k = orc.failAt
       \/ orc.dead /\ k > orc.failAt

HistoryEntry(command, resp, nolog) ==
    IF nolog THEN [command |-> "******", response |-> <<"*", "*", "*", "*", "*">>]
    ELSE [command |-> command, response |-> resp]

send_command_LogFirst(cs, command, orc) ==
    IF cs.exc # NoExc THEN cs
    ELSE LET k == cs.n + 1
             logged == [cs EXCEPT !.n = k,
                                  !.history = Append(cs.history,
                                                     HistoryEntry(command, orc.resp, FALSE))]
         IN IF SendFails(k, orc)
            THEN [logged EXCEPT
                     !.sent = Append(cs.sent, [command |-> command, ok |-> FALSE]),
                     !.exc = Exc("AnsibleConnectionFailure", command)]
            ELSE [logged EXCEPT
                     !.sent = Append(cs.sent, [command |-> command, ok |-> TRUE]),
                     !.device = DeviceApply(cs.os, cs.device, command),
                     !.resp = orc.resp]

\* CliconfBase.send_command with the default sendonly, newline and
\* prompt_retry_check.  A call state with an exception in flight is passed
\* through, so that calls compose in program order.
send_command(cs, command, orc) ==
    IF cs.exc # NoExc THEN cs
    ELSE LET k == cs.n + 1
             nolog == FALSE       \* line 131 overrides the argument
         IN IF SendFails(k, orc)
            THEN [cs EXCEPT !.n = k,
                            !.sent = Append(cs.sent, [command |-> command, ok |-> FALSE]),
                            !.exc = Exc("AnsibleConnectionFailure", command)]
            ELSE [cs EXCEPT !.n = k,
                            !.sent = Append(cs.sent, [command |-> command, ok |-> TRUE]),
                            !.device = DeviceApply(cs.os, cs.device, command),
                            !.history = Append(cs.history,
                                               HistoryEntry(command, orc.resp, nolog)),
                            !.resp = orc.resp]

Elevated_NoStrip(prompt) == EndsWith(prompt, "#")

\* The test of enable_mode: to_text(prompt).strip().endswith('#')
Elevated(prompt) == EndsWith(Strip(prompt), "#")

PrivilegeError == Exc("AnsibleError", "operation requires privilege escalation")

\* The decorator enable_mode around the outcome body of the wrapped method.
enable_mode(cs, prompt, body) ==
    IF ~Elevated(prompt) THEN [cs EXCEPT !.exc = PrivilegeError] ELSE body

(***************************************************************************)
(* get_config.  Every method returns [cs |-> call state, value |-> result].*)
(* The filter argument keeps its default None, so the command is the bare  *)
(* 'show <source>-config' after cmd.strip().                               *)
(***************************************************************************)
Raise(cs, exc) == [cs EXCEPT !.exc = exc]

Out(cs, value) == [cs |-> cs, value |-> value]

SourceLookup(source) ==
    IF source = "running" THEN "running-config" ELSE "startup-config"

UnsupportedSource ==
    Exc("ValueError", "fetching configuration from source is not supported")

\* ios.py get_config; asa.py lines 61-73 are the same text.
IosGetConfig(cs, prompt, source, orc) ==
    LET body ==
            IF source \notin {"running", "startup"}
            THEN Raise(cs, UnsupportedSource)
            ELSE send_command(cs, "show " \o SourceLookup(source), orc)
        r == enable_mode(cs, prompt, body)
    IN Out(r, Val(r.resp))

\* eos.py get_config: the rejection calls self.invalid_params, a name that
\* neither Cliconf nor CliconfBase defines.
EosGetConfig(cs, prompt, source, orc) ==
    LET body ==
            IF source \notin {"running", "startup"}
            THEN Raise(cs, Exc("AttributeError", "invalid_params"))
            ELSE send_command(cs, "show " \o SourceLookup(source), orc)
        r == enable_mode(cs, prompt, body)
    IN Out(r, Val(r.resp))

\* vyos.py get_config: not decorated, source is not read.  Line 91 is an
\* unfinished statement ('if filter') and contributes nothing.
VyosGetConfig(cs, prompt, source, orc) ==
    LET r == send_command(cs, "show configuration", orc)
    IN Out(r, Val(r.resp))

NetmikoUnsupported ==
    Exc("AnsibleError", "edit_config is not supported when using netmiko")

\* netmiko.py get_config
NetmikoGetConfig(cs, prompt, source, orc) == Out(Raise(cs, NetmikoUnsupported), NoneVal)

get_config(cs, prompt, source, orc) ==
    CASE cs.os \in {"ios", "asa"} -> IosGetConfig(cs, prompt, source, orc)
      [] cs.os = "eos" -> EosGetConfig(cs, prompt, source, orc)
      [] cs.os = "vyos" -> VyosGetConfig(cs, prompt, source, orc)
      [] OTHER -> NetmikoGetConfig(cs, prompt, source, orc)

(***************************************************************************)
(* edit_config.                                                            *)
(***************************************************************************)
MissingCandidate == Exc("ValueError", "must provide a candidate config to load")
UnsupportedCommit ==
    Exc("ValueError", "commit and/or replace are not supported on this platform")

\* The argument checks that open edit_config in ios.py, asa.py, eos.py and
\* vyos.py: commit and replace must be booleans after or False, the
\* candidate must not be None.
CheckArguments(candidate, commit, replace) ==
    IF OrFalse(commit) \notin {"True", "False"}
    THEN Exc("ValueError", "commit must be a bool")
    ELSE IF OrFalse(replace) \notin {"True", "False"}
    THEN Exc("ValueError", "replace must be a bool")
    ELSE IF candidate.kind = "none"
    THEN MissingCandidate
    ELSE NoExc

\* The loading loop of ios.py and asa.py edit_config.  line != 'end' and
\* line[0] != '!' indexes the line, so an empty line raises IndexError.
RECURSIVE LoadLines(_, _, _)
LoadLines(cs, lines, orc) ==
    IF lines = <<>> \/ cs.exc # NoExc THEN cs
    ELSE LET line == Head(lines) IN
         IF line = "end" THEN LoadLines(cs, Tail(lines), orc)
         ELSE IF line = "" THEN Raise(cs, Exc("IndexError", "string index out of range"))
         ELSE IF line \in BangLines THEN LoadLines(cs, Tail(lines), orc)
         ELSE LoadLines(send_command(cs, line, orc), Tail(lines), orc)

IosEditConfig_EndAfterError(cs, prompt, candidate, commit, replace, orc) ==
    LET chk == CheckArguments(candidate, commit, replace)
        loaded == LoadLines(cs, CandidateLines(candidate), orc)
        ended == send_command(Raise(loaded, NoExc), "end", orc)
        body ==
            IF chk # NoExc THEN Raise(cs, chk)
            ELSE IF OrFalse(commit) = "True" \/ OrFalse(replace) = "True"
            THEN Raise(cs, UnsupportedCommit)
            ELSE IF loaded.exc # NoExc /\ ended.exc = NoExc
            THEN Raise(ended, loaded.exc)
            ELSE ended
    IN Out(enable_mode(cs, prompt, body), NoneVal)

\* ios.py edit_config; asa.py lines 75-99 are the same text.
IosEditConfig(cs, prompt, candidate, commit, replace, orc) ==
    LET chk == CheckArguments(candidate, commit, replace)
        body ==
            IF chk # NoExc THEN Raise(cs, chk)
            ELSE IF OrFalse(commit) = "True" \/ OrFalse(replace) = "True"
            THEN Raise(cs, UnsupportedCommit)
            ELSE send_command(LoadLines(cs, CandidateLines(candidate), orc), "end", orc)
    IN Out(enable_mode(cs, prompt, body), NoneVal)

\* Every command of a sequence, until one raises.
RECURSIVE SendAll(_, _, _)
SendAll(cs, cmds, orc) ==
    IF cmds = <<>> \/ cs.exc # NoExc THEN cs
    ELSE SendAll(send_command(cs, Head(cmds), orc), Tail(cmds), orc)

ExceptAbort_Reraise(tried, abort, orc) == tried

\* except: self.send_command(abort); raise around the outcome tried of a
\* try block: the abort is sent with the exception set aside; when the abort
\* itself raises, its exception is the one that leaves the method.
ExceptAbort(tried, abort, orc) ==
    IF tried.exc = NoExc THEN tried
    ELSE LET a == send_command(Raise(tried, NoExc), abort, orc)
         IN IF a.exc # NoExc THEN a ELSE Raise(a, tried.exc)

\* diff = send_command(..); if diff: diff = to_text(diff).strip()
Diff(resp) == IF resp # <<>> THEN Strip(resp) ELSE resp

VyosFinalize_CommitThenDiscard(compared, commit, orc) ==
    send_command(send_command(compared, "commit", orc), "exit discard", orc)

VyosFinalize_AlwaysCommit(compared, commit, orc) ==
    send_command(compared, "commit", orc)

\* vyos.py edit_config, lines 119-124: commit, or leave discarding.
VyosFinalize(compared, commit, orc) ==
    IF commit = "True"
    THEN send_command(compared, "commit", orc)
    ELSE send_command(compared, "exit discard", orc)

\* vyos.py edit_config: not decorated.
VyosEditConfig(cs, prompt, candidate, commit, replace, orc) ==
    LET chk == CheckArguments(candidate, commit, replace) IN
    IF chk # NoExc THEN Out(Raise(cs, chk), NoneVal)
    ELSE LET loaded == ExceptAbort(
                           SendAll(cs, <<"configure">> \o CandidateLines(candidate), orc),
                           "exit discard", orc)
             compared == send_command(loaded, "compare", orc)
             final == VyosFinalize(compared, OrFalse(commit), orc)
         IN Out(final, Val(Diff(compared.resp)))

\* eos.py supports_sessions: the property calls self.device_operations, a
\* name the class does not define (the method is get_operations).
supports_sessions ==
    [exc |-> Exc("AttributeError", "device_operations"), value |-> FALSE]

\* eos.py _loader: the loop of ios.py over the commands it is given.
_loader(cs, candidate, orc) == LoadLines(cs, candidate, orc)

\* The argument of the _loader call at eos.py line 201: the name config,
\* bound neither in edit_config nor in the module.
SessionLoaderArgument(lines) == [exc |-> Exc("NameError", "config"), lines |-> <<>>]

\* eos.py line 193: session = 'ansible_%s' % int(time.time())
session_name(now) == "ansible_" \o ToString(now)

\* eos.py lines 193-195: the session is named and started.
start_session(cs, orc, now) ==
    send_command(cs, "configure session " \o session_name(now), orc)

\* eos.py edit_config, lines 193-213: the session branch.
EosSession(cs, lines, commit, replace, orc, now) ==
    LET started == start_session(cs, orc, now)
        cleaned == IF replace = "True"
                   THEN send_command(started, "rollback clean-config", orc)
                   ELSE started
        arg == SessionLoaderArgument(lines)
        tried == IF cleaned.exc # NoExc THEN cleaned
                 ELSE IF arg.exc # NoExc THEN Raise(cleaned, arg.exc)
                 ELSE _loader(cleaned, arg.lines, orc)
        loaded == IF cleaned.exc # NoExc THEN cleaned
                  ELSE ExceptAbort(tried, "abort", orc)
        diffed == send_command(loaded, "show session-config diffs", orc)
        final == IF commit = "True"
                 THEN send_command(diffed, "commit", orc)
                 ELSE send_command(diffed, "abort", orc)
    IN Out(final, Val(Diff(diffed.resp)))

\* eos.py edit_config, lines 183-191: the branch without sessions.
EosMerge(cs, lines, commit, replace, orc) ==
    IF replace = "True"
    THEN Out(Raise(cs, Exc("ValueError",
                           "config replace not supported for merge operations")),
             NoneVal)
    ELSE IF commit = "False"
    THEN Out(Raise(cs, Exc("ValueError",
                           "cannot load candidate configuration when commit is False")),
             NoneVal)
    ELSE Out(_loader(cs, <<"configure">> \o lines, orc), NoneVal)

\* eos.py edit_config
EosEditConfig(cs, prompt, candidate, commit, replace, orc, now) ==
    LET chk == CheckArguments(candidate, commit, replace)
        ss == supports_sessions
        branch ==
            IF chk # NoExc THEN Out(Raise(cs, chk), NoneVal)
            ELSE IF ss.exc # NoExc THEN Out(Raise(cs, ss.exc), NoneVal)
            ELSE IF ~ss.value
            THEN EosMerge(cs, CandidateLines(candidate), OrFalse(commit),
                          OrFalse(replace), orc)
            ELSE EosSession(cs, CandidateLines(candidate), OrFalse(commit),
                            OrFalse(replace), orc, now)
        ended == send_command(branch.cs, "end", orc)
    IN IF Elevated(prompt)
       THEN Out(ended, IF ended.exc = NoExc THEN branch.value ELSE NoneVal)
       ELSE Out(enable_mode(cs, prompt, ended), NoneVal)

NetmikoEditConfig_Silent(cs) == Out(cs, NoneVal)

\* netmiko.py edit_config
NetmikoEditConfig(cs) == Out(Raise(cs, NetmikoUnsupported), NoneVal)

edit_config(cs, prompt, candidate, commit, replace, orc, now) ==
    CASE cs.os \in {"ios", "asa"} ->
            IosEditConfig(cs, prompt, candidate, commit, replace, orc)
      [] cs.os = "eos" ->
            EosEditConfig(cs, prompt, candidate, commit, replace, orc, now)
      [] cs.os = "vyos" ->
            VyosEditConfig(cs, prompt, candidate, commit, replace, orc)
      [] OTHER -> NetmikoEditConfig(cs)

(***************************************************************************)
(* send_command with every argument of its signature.                      *)
(***************************************************************************)
\* Lines 128-129: a nolog that is neither True nor False becomes True.
NormalNolog(nolog) == IF nolog \notin {"True", "False"} THEN "True" ELSE nolog

InvalidArg_Never(arg) == FALSE

\* Line 134: arg not in (None, True, False)
InvalidArg(arg) == arg \notin {"None", "True", "False"}

\* Lines 133-135: the first of sendonly, newline, prompt_retry_check that is
\* rejected, in this order; "" when none is.
FirstInvalid(sendonly, newline, prompt_retry_check) ==
    CASE InvalidArg(sendonly) -> sendonly
      [] InvalidArg(newline) -> newline
      [] InvalidArg(prompt_retry_check) -> prompt_retry_check
      [] OTHER -> ""

\* CliconfBase.send_command(command, sendonly=, newline=,
\* prompt_retry_check=, nolog=).  The nolog argument is normalised and then
\* overwritten by line 131, so what is logged does not depend on it: the
\* send and the history entry are those of send_command above.
send_command_args(cs, command, sendonly, newline, prompt_retry_check, nolog, orc) ==
    LET normal == NormalNolog(nolog)
        bad == FirstInvalid(sendonly, newline, prompt_retry_check)
    IN IF bad # ""
       THEN Raise(cs, Exc("ValueError", "invalid value for " \o bad))
       ELSE send_command(cs, command, orc)

(***************************************************************************)
(* Capability queries.  A query returns [cs |-> call state, operations |-> *)
(* the attribute _device_operations after the call, result |-> what the    *)
(* caller gets].                                                           *)
(***************************************************************************)
\* dict.get(key) on the operations map, or the map itself without a key.
OperationsLookup(operations, key) ==
    CASE key = "None" ->
            [NoResult EXCEPT !.kind = "operations", !.operations = operations]
      [] key = "supports_commit" ->
            [NoResult EXCEPT !.kind = "item", !.item = operations.commit]
      [] OTHER ->
            [NoResult EXCEPT !.kind = "item",
                             !.item = IF operations.sessions = "absent"
                                      THEN "None" ELSE operations.sessions]

\* eos.py lines 44-48: os.getenv('ANSIBLE_EOS_USE_SESSIONS', True) through
\* int().  int(True) is 1; a text that is not a number leaves True.
use_sessions(env) ==
    CASE env = "unset" -> "1"
      [] env = "0" -> "0"
      [] OTHER -> "True"

\* eos.py lines 52-54: every entry is bool(use_sessions).
ComputedOperations(env) ==
    LET b == IF use_sessions(env) = "0" THEN "False" ELSE "True"
    IN [set |-> TRUE, commit |-> b, replace |-> b, diff |-> b, sessions |-> b]

\* get_operations of ios.py, asa.py, vyos.py, netmiko.py: the class attribute.
StaticGetOperations(cs, operations, key) ==
    [cs |-> cs, operations |-> operations,
     result |-> OperationsLookup(operations, key)]

\* get_operations of eos.py.  The probe is sent only when use_sessions is
\* the object True; its answer is assigned to another name (line 50), so the
\* entries do not depend on it.
EosGetOperations(cs, operations, env, key, orc) ==
    IF operations.set
    THEN StaticGetOperations(cs, operations, key)
    ELSE LET probed == IF use_sessions(env) = "True"
                       THEN send_command(cs, "show configuration session", orc)
                       ELSE cs
         IN IF probed.exc # NoExc
            THEN [cs |-> probed, operations |-> operations, result |-> NoResult]
            ELSE StaticGetOperations(probed, ComputedOperations(env), key)

\* What connection.send does during get_operations.
ProbeOracles ==
    { o \in [failAt : 0..1, dead : BOOLEAN, resp : ProbeReplies] :
        o.dead => o.failAt # 0 }

get_operations(cs, operations, env, key, orc) ==
    IF cs.os = "eos" THEN EosGetOperations(cs, operations, env, key, orc)
    ELSE StaticGetOperations(cs, operations, key)

\* CliconfBase.get_capabilities: the name json is not bound in the module
\* (it is never imported), so evaluating json.dumps raises.
get_capabilities(cs) == Raise(cs, Exc("NameError", "json"))

(***************************************************************************)
(* Fact queries.  A query returns [cs |-> call state, facts |-> the        *)
(* attribute _device_facts after the call, result |-> what the caller      *)
(* gets].                                                                  *)
(***************************************************************************)
\* dict.get(key) on the facts map, or the map itself without a key.
FactsLookup(facts, key) ==
    IF key = "None"
    THEN [NoResult EXCEPT !.kind = "facts", !.facts = facts]
    ELSE [NoResult EXCEPT !.kind = "item", !.item = facts.network_os]

\* connection.device_type of a netmiko connection.
DeviceType == "cisco_ios"

\* json.loads: the member names of the document, or ValueError.
IsJson(resp) == Len(resp) >= 2 /\ resp[1] = "{" /\ resp[Len(resp)] = "}"
Members(resp) == { resp[i] : i \in 2..(Len(resp) - 1) }

\* The try block of get_facts returns without AttributeError: the map is
\* set, and the attribute read is _device_facts.  Without a key ios.py,
\* asa.py and netmiko.py read self._device.facts, and the instance has no
\* attribute _device.
FactsHit(os, facts, key) ==
    /\ facts.set
    /\ key # "None" \/ os \in {"eos", "vyos"}

FactsOut(cs, facts, result) == [cs |-> cs, facts |-> facts, result |-> result]

\* The except block up to setattr: the commands sent and the map stored.
\* Returns [cs, facts]; facts is the map as it was when a command or a
\* parse raised.
CollectFacts(cs, facts, orc) ==
    CASE cs.os \in {"ios", "asa"} ->
            LET c1 == send_command(cs, "show version", orc)
            IN IF c1.exc # NoExc THEN [cs |-> c1, facts |-> facts]
               ELSE [cs |-> c1,
                     facts |-> [set |-> TRUE, network_os |-> cs.os,
                                replies |-> <<Strip(c1.resp)>>]]
      [] cs.os = "vyos" ->
            LET c1 == send_command(cs, "show version", orc)
                c2 == send_command(c1, "show host name", orc)
            IN IF c2.exc # NoExc THEN [cs |-> c2, facts |-> facts]
               ELSE [cs |-> c2,
                     facts |-> [set |-> TRUE, network_os |-> "vyos",
                                replies |-> <<Strip(c1.resp), Strip(c2.resp)>>]]
      [] cs.os = "eos" ->
            LET c1 == send_command(cs, "show version | json", orc)
                p1 == CASE c1.exc # NoExc -> c1
                        [] ~IsJson(c1.resp) ->
                              Raise(c1, Exc("ValueError", "No JSON object could be decoded"))
                        [] "version" \notin Members(c1.resp) ->
                              Raise(c1, Exc("KeyError", "version"))
                        [] "modelName" \notin Members(c1.resp) ->
                              Raise(c1, Exc("KeyError", "modelName"))
                        [] OTHER -> c1
                c2 == send_command(p1, "show hostname | json", orc)
                p2 == CASE c2.exc # NoExc -> c2
                        [] ~IsJson(c2.resp) ->
                              Raise(c2, Exc("ValueError", "No JSON object could be decoded"))
                        [] "hostname" \notin Members(c2.resp) ->
                              Raise(c2, Exc("KeyError", "hostname"))
                        [] OTHER -> c2
            IN IF p2.exc # NoExc THEN [cs |-> p2, facts |-> facts]
               ELSE [cs |-> p2,
                     facts |-> [set |-> TRUE, network_os |-> "eos",
                                replies |-> <<c1.resp, c2.resp>>]]
      [] OTHER ->
            [cs |-> cs,
             facts |-> [set |-> TRUE, network_os |-> DeviceType, replies |-> <<>>]]

\* get_facts(key) in a frame at the given depth.  A miss collects the facts,
\* stores them and calls get_facts(key) again; netmiko.py calls the
\* undefined self.device_facts(key) instead.  The interpreter raises
\* RuntimeError when the frames nest deeper than its recursion limit.
RECURSIVE get_facts(_, _, _, _, _)
get_facts(cs, facts, key, orc, depth) ==
    IF depth > MaxDepth
    THEN FactsOut(Raise(cs, Exc("RuntimeError", "maximum recursion depth exceeded")),
                  facts, NoResult)
    ELSE IF FactsHit(cs.os, facts, key)
    THEN FactsOut(cs, facts, FactsLookup(facts, key))
    ELSE LET c == CollectFacts(cs, facts, orc)
         IN CASE c.cs.exc # NoExc -> FactsOut(c.cs, c.facts, NoResult)
              [] cs.os = "netmiko" ->
                    FactsOut(Raise(c.cs, Exc("AttributeError", "device_facts")),
                             c.facts, NoResult)
              [] OTHER -> get_facts(c.cs, c.facts, key, orc, depth + 1)

\* The set of oracles of a fact query: the replies are FactReplies.
FactOracles ==
    { o \in [failAt : 0..2, dead : BOOLEAN, resp : FactReplies] :
        o.dead => o.failAt # 0 }

(***************************************************************************)
(* The command-timeout alarm.                                              *)
(***************************************************************************)
\* CliconfBase._alarm_handler: after the log line it calls self.close(), and
\* neither CliconfBase nor an adapter class defines close.  Returns whether
\* the connection is closed afterwards and the exception of the handler.
alarm_handler(isClosed) ==
    [closed |-> isClosed, exc |-> Exc("AttributeError", "close")]

(***************************************************************************)
(* The network_config module (library/network_config.py).  AnsibleModule   *)
(* and Connection are collaborators of main: the params mapping, the check *)
(* mode and the reply of the connection to get_capabilities are inputs of  *)
(* a run.  argument_spec declares content, commit and replace, so the      *)
(* mapping AnsibleModule builds from it has no key 'config'; a mapping     *)
(* that has one is drawn as well.                                          *)
(***************************************************************************)
\* Values of a bool parameter of the module.
BoolValues == {"True", "False"}

\* Entries of the capability record read with capabilities.get: the key is
\* missing (None) or true.
CapabilityValues == {"True", "None"}

\* The inputs of a run.  capabilities is "raised" when the call of
\* connection.get_capabilities raises, "record" otherwise.
ModuleInputs ==
    [check_mode : BOOLEAN, config : {"absent", "text"}, commit : BoolValues,
     replace : BoolValues, capabilities : {"raised", "record"},
     can_commit : CapabilityValues, can_replace : CapabilityValues,
     can_diff : CapabilityValues]

CallCommit_FromParam(check_mode, commit) == commit

\* Line 66: commit = not module.check_mode
CallCommit(check_mode, commit) == IF check_mode THEN "False" ELSE "True"

\* The outcome of a run: the run record and the exception or failure the
\* run ends with (NoExc: exit_json).
RunOut(in, called, changed, exc) ==
    [run |-> [NoRun EXCEPT !.check_mode = in.check_mode, !.config = in.config,
                           !.commit = in.commit, !.replace = in.replace,
                           !.capabilities = in.capabilities,
                           !.can_commit = in.can_commit,
                           !.can_replace = in.can_replace,
                           !.can_diff = in.can_diff,
                           !.called = called,
                           !.call_commit =
                               IF called THEN CallCommit(in.check_mode, in.commit)
                               ELSE "None",
                           !.call_replace = IF called THEN in.replace ELSE "None",
                           !.changed = changed],
     exc |-> exc]

\* main().  The edit_config call passes the candidate as config=, a keyword
\* no edit_config of the plugins accepts, so the call raises and the except
\* block ends the run with fail_json.
main(in) ==
    CASE in.config = "absent" ->
            RunOut(in, FALSE, "False", Exc("KeyError", "config"))
      [] in.capabilities = "raised" ->
            RunOut(in, FALSE, "False", Exc("ConnectionError", "get_capabilities"))
      [] in.replace = "True" /\ in.can_replace # "True" ->
            RunOut(in, FALSE, "False",
                   Exc("fail_json", "config replace is not supported on this device"))
      [] in.check_mode /\ in.can_commit # "True" ->
            RunOut(in, FALSE, "True", NoExc)
      [] OTHER ->
            RunOut(in, TRUE, "False",
                   Exc("fail_json", "edit_config() got an unexpected keyword argument 'config'"))

(***************************************************************************)
(* Installing the outcome of a call.                                       *)
(***************************************************************************)
\* The state a call starts from, and the call that preceded it.
Pre == [history |-> history, sent |-> sent, device |-> device,
        device_operations |-> device_operations, device_facts |-> device_facts,
        op |-> last.op, status |-> last.status]

Return(cs, call, value) ==
    /\ history' = cs.history
    /\ sent' = cs.sent
    /\ device' = cs.device
    /\ last' = [call EXCEPT !.status = IF cs.exc = NoExc THEN "ok" ELSE "raised",
                            !.exc = cs.exc,
                            !.value = IF cs.exc = NoExc THEN value ELSE NoneVal,
                            !.pre = Pre]

\* CliconfBase.get: send_command(command, prompt, answer, sendonly, newline)
Get ==
    /\ gets < MaxGets
    /\ \E command \in GetCommands, orc \in Oracles(1) :
          LET cs == send_command(Enter(network_os), command, orc)
          IN Return(cs, [NoCall EXCEPT !.op = "get", !.command = command],
                    Val(cs.resp))
    /\ gets' = gets + 1
    /\ UNCHANGED <<network_os, configured, instance>>

\* A call of get_config on the connection.
GetConfig ==
    /\ ~configured
    /\ gets <= MaxPrior
    /\ \E prompt \in Prompts, source \in Sources, orc \in Oracles(1) :
          LET r == get_config(Enter(network_os), prompt, source, orc)
          IN Return(r.cs, [NoCall EXCEPT !.op = "get_config", !.prompt = prompt,
                                         !.source = source],
                    r.value)
    /\ configured' = TRUE
    /\ UNCHANGED <<network_os, gets, instance>>

\* The transport answers every command of a call with resp.
Answering(resp) == [failAt |-> 0, dead |-> FALSE, resp |-> resp]

\* The oracles of an edit_config call whose answers are resp: the transport
\* answers every command, or raises at one of the sends the call makes when
\* every command is answered.  (A call runs as that one does up to the send
\* that raises, so these are all the ways the transport can act on it.)
EditOracles(prompt, candidate, commit, replace, now, resp) ==
    LET whole == edit_config(Enter(network_os), prompt, candidate, commit,
                             replace, Answering(resp), now)
    IN { o \in Oracles(whole.cs.n) : o.resp = resp }

\* A call of edit_config on the connection.
EditConfig ==
    /\ ~configured
    /\ gets <= MaxPrior
    /\ \E prompt \in Prompts, candidate \in Candidates, commit \in Flags,
          replace \in Flags, resp \in Responses,
          now \in (IF network_os = "eos" THEN Clock ELSE {1}) :
       \E orc \in EditOracles(prompt, candidate, commit, replace, now, resp) :
          LET r == edit_config(Enter(network_os), prompt, candidate, commit,
                               replace, orc, now)
          IN Return(r.cs, [NoCall EXCEPT !.op = "edit_config", !.prompt = prompt,
                                         !.candidate = candidate,
                                         !.commit = commit, !.replace = replace],
                    r.value)
    /\ configured' = TRUE
    /\ UNCHANGED <<network_os, gets, instance>>

Next == Get \/ GetConfig \/ EditConfig

\* A call of send_command on the instance, with arguments of the caller.
SendCommand ==
    /\ queries < MaxQueries
    /\ \E command \in GetCommands, sendonly \in ArgValues, newline \in ArgValues,
          prompt_retry_check \in ArgValues, nolog \in NologValues,
          orc \in Oracles(1) :
          LET cs == send_command_args(Enter(network_os), command, sendonly,
                                      newline, prompt_retry_check, nolog, orc)
          IN Return(cs, [NoCall EXCEPT !.op = "send_command", !.command = command,
                                       !.sendonly = sendonly, !.newline = newline,
                                       !.prompt_retry_check = prompt_retry_check,
                                       !.nolog = nolog],
                    Val(cs.resp))
    /\ queries' = queries + 1
    /\ UNCHANGED <<network_os, gets, configured, use_sessions_env,
                   device_operations, device_facts, closed>>

\* A call of get_operations on the instance.
GetOperations ==
    /\ queries < MaxQueries
    /\ \E key \in OperationKeys, orc \in ProbeOracles :
          LET r == get_operations(Enter(network_os), device_operations,
                                  use_sessions_env, key, orc)
          IN /\ Return(r.cs, [NoCall EXCEPT !.op = "get_operations", !.key = key,
                                            !.result = r.result],
                       NoneVal)
             /\ device_operations' = r.operations
    /\ queries' = queries + 1
    /\ UNCHANGED <<network_os, gets, configured, use_sessions_env,
                   device_facts, closed>>

\* A call of get_capabilities on the instance.
GetCapabilities ==
    /\ queries < MaxQueries
    /\ Return(get_capabilities(Enter(network_os)),
              [NoCall EXCEPT !.op = "get_capabilities"], NoneVal)
    /\ queries' = queries + 1
    /\ UNCHANGED <<network_os, gets, configured, use_sessions_env,
                   device_operations, device_facts, closed>>

\* A call of get_facts on the instance.
GetFacts ==
    /\ queries < MaxQueries
    /\ \E key \in FactKeys, orc \in FactOracles :
          LET r == get_facts(Enter(network_os), device_facts, key, orc, 0)
          IN /\ Return(r.cs, [NoCall EXCEPT !.op = "get_facts", !.key = key,
                                            !.result = r.result],
                       NoneVal)
             /\ device_facts' = r.facts
    /\ queries' = queries + 1
    /\ UNCHANGED <<network_os, gets, configured, use_sessions_env,
                   device_operations, closed>>

\* The command-timeout alarm fires and the handler runs.
Alarm ==
    /\ queries < MaxQueries
    /\ LET r == alarm_handler(closed)
       IN /\ closed' = r.closed
          /\ last' = [NoCall EXCEPT !.op = "_alarm_handler", !.status = "raised",
                                    !.exc = r.exc, !.pre = Pre]
    /\ queries' = queries + 1
    /\ UNCHANGED <<network_os, history, sent, device, gets, configured,
                   use_sessions_env, device_operations, device_facts>>

\* A call of edit_config with a candidate text that holds an empty line.
EditBlank ==
    /\ ~configured
    /\ gets <= MaxPrior
    /\ \E prompt \in Prompts, commit \in Flags, replace \in Flags,
          orc \in Oracles(MaxLines + 4),
          now \in (IF network_os = "eos" THEN Clock ELSE {1}) :
          LET candidate == TextCandidate(BlankScenario)
              r == edit_config(Enter(network_os), prompt, candidate, commit,
                               replace, orc, now)
          IN Return(r.cs, [NoCall EXCEPT !.op = "edit_config", !.prompt = prompt,
                                         !.candidate = candidate,
                                         !.commit = commit, !.replace = replace],
                    r.value)
    /\ configured' = TRUE
    /\ UNCHANGED <<network_os, gets, instance>>

NextLoad == Get \/ EditBlank

SpecLoad == Init /\ [][NextLoad]_vars

\* The entry of the session branch of eos.py edit_config, lines 193-195, on
\* its own: a session is named after the clock and started.
StartSession ==
    /\ network_os = "eos"
    /\ queries < MaxQueries
    /\ \E now \in Clock, orc \in Oracles(1) :
          Return(start_session(Enter(network_os), orc, now),
                 [NoCall EXCEPT !.op = "start_session"], NoneVal)
    /\ queries' = queries + 1
    /\ UNCHANGED <<network_os, gets, configured, use_sessions_env,
                   device_operations, device_facts, closed>>

NextSession == StartSession \/ Get

SpecSession == Init /\ [][NextSession]_vars

\* A run of the network_config module against the connection.
NetworkConfig ==
    /\ ~configured
    /\ \E in \in ModuleInputs :
          LET r == main(in)
          IN last' = [NoCall EXCEPT !.op = "network_config",
                                    !.status = IF r.exc = NoExc THEN "ok" ELSE "raised",
                                    !.exc = r.exc, !.run = r.run, !.pre = Pre]
    /\ configured' = TRUE
    /\ UNCHANGED <<network_os, history, sent, device, gets, instance>>

NextModule == NetworkConfig \/ Get

SpecModule == Init /\ [][NextModule]_vars

NextQueries ==
    SendCommand \/ GetOperations \/ GetCapabilities \/ GetFacts \/ Alarm

SpecQueries == Init /\ [][NextQueries]_vars

Spec == Init /\ [][Next]_vars

(***************************************************************************)
(* Vocabulary of the properties: what the last call did.                   *)
(***************************************************************************)
\* The sends of the last call, in order, with their outcome.
CallSent == SubSeq(sent, Len(last.pre.sent) + 1, Len(sent))

\* The commands of a send log.
Commands(log) == [i \in 1..Len(log) |-> log[i].command]

\* The sends the transport answered.
Accepted(log) == SelectSeq(log, LAMBDA e : e.ok)

AllAccepted(log) == \A i \in 1..Len(log) : log[i].ok

IsPrefix(a, b) == Len(a) <= Len(b) /\ SubSeq(b, 1, Len(a)) = a

StagedAdapters == {"eos", "vyos"}
DirectAdapters == {"ios", "asa"}

AbortCommand == IF network_os = "eos" THEN "abort" ELSE "exit discard"

Edited == last.op = "edit_config"

Truthy(flag) == flag = "True"

PromptEndsInHash(prompt) ==
    LET s == Strip(prompt) IN Len(s) > 0 /\ s[Len(s)] = "#"

Range(f) == { f[i] : i \in DOMAIN f }

\* Send number i of the last call was a candidate line, and it raised after
\* every earlier send had been answered.
LineFailedAt(i) ==
    /\ i \in 2..Len(CallSent)
    /\ ~CallSent[i].ok
    /\ \A j \in 1..(i - 1) : CallSent[j].ok
    /\ last.candidate.kind # "none"
    /\ CallSent[i].command \in Range(CandidateLines(last.candidate))

\* The candidate holds nothing to load: None, a text without a non-blank
\* line, a sequence without items.
EmptyCandidate(c) ==
    \/ c.kind = "none"
    \/ c.kind = "text" /\ \A i \in 1..Len(c.lines) : c.lines[i] = ""
    \/ c.kind = "list" /\ c.lines = <<>>

\* The lines a filtering loader sends: neither 'end' nor a '!' comment.
Loadable(lines) == SelectSeq(lines, LAMBDA l : l # "end" /\ l \notin BangLines)

(***************************************************************************)
(* C1.  On a staged-session adapter, when the send of a candidate line     *)
(* raises inside edit_config, the abort command of the adapter ('abort' on *)
(* EOS, 'exit discard' on VyOS) is the next and last command sent, the     *)
(* call raises, and whenever the error of the line is the one that reaches *)
(* the caller the abort command is the last entry of the history.  (The    *)
(* error of the line reaches the caller exactly when the transport         *)
(* answered the abort.)                                                    *)
(***************************************************************************)
C1_AbortBeforeError ==
    \A i \in 1..Len(CallSent) :
        (Edited /\ network_os \in StagedAdapters /\ LineFailedAt(i)) =>
            /\ Len(CallSent) = i + 1
            /\ CallSent[i + 1].command = AbortCommand
            /\ last.status = "raised"
            /\ CallSent[i + 1].ok <=>
                   last.exc = Exc("AnsibleConnectionFailure", CallSent[i].command)
            /\ last.exc = Exc("AnsibleConnectionFailure", CallSent[i].command) =>
                   /\ history # <<>>
                   /\ history[Len(history)].command = AbortCommand

C1_Witness ==
    /\ Edited /\ network_os \in StagedAdapters
    /\ \E i \in 1..Len(CallSent) :
          /\ LineFailedAt(i)
          /\ i > 2
          /\ last.exc = Exc("AnsibleConnectionFailure", CallSent[i].command)
    /\ history[Len(history)].command = AbortCommand

(***************************************************************************)
(* C2.  An edit_config call of a staged-session adapter that started its   *)
(* session and then raised (the abort command itself not being what        *)
(* failed) leaves the session aborted or committed, never active.          *)
(***************************************************************************)
C2_NoSessionLeftOpen ==
    ( /\ Edited /\ network_os \in StagedAdapters
      /\ Len(CallSent) > 0 /\ CallSent[1].ok
      /\ last.status = "raised"
      /\ \A i \in 1..Len(CallSent) :
            CallSent[i].command = AbortCommand => CallSent[i].ok )
    => device.session \in {"aborted", "committed"}

(***************************************************************************)
(* C3.  An edit_config call with commit false that returns on a            *)
(* staged-session adapter leaves the running configuration as it was: the  *)
(* candidate lines were sent inside the session, the last command is the   *)
(* abort command, no commit was sent and nothing stays staged.             *)
(***************************************************************************)
C3_DiscardIsLossless ==
    ( /\ Edited /\ network_os \in StagedAdapters
      /\ ~Truthy(last.commit)
      /\ last.status = "ok" )
    => /\ device.running = last.pre.device.running
       /\ device.staged = {}
       /\ device.session = "aborted"
       /\ Len(CallSent) >= 3
       /\ CallSent[Len(CallSent)].command = AbortCommand
       /\ "commit" \notin Range(Commands(CallSent))
       /\ AllAccepted(CallSent)

C3_Witness ==
    /\ Edited /\ network_os \in StagedAdapters
    /\ ~Truthy(last.commit)
    /\ last.status = "ok"
    /\ last.candidate = TextCandidate(<<Line1, Line2>>)
    /\ Commands(CallSent) = <<"configure", Line1, Line2, "compare", "exit discard">>
    /\ device.running = last.pre.device.running

(***************************************************************************)
(* C4.  On an EOS adapter at an elevated prompt, with a transport that     *)
(* answers every command, edit_config(candidate, commit=true) of a text    *)
(* candidate returns after sending the session start, the candidate lines  *)
(* that are neither 'end' nor a comment in candidate order, the diff       *)
(* request, 'commit' and 'end', and returns the trimmed diff; for the      *)
(* candidate interface Ethernet1 / description test / end that is two line *)
(* loads.                                                                  *)
(***************************************************************************)
C4_SessionCommitOrder ==
    ( /\ Edited /\ network_os = "eos"
      /\ PromptEndsInHash(last.prompt)
      /\ last.candidate = TextCandidate(Scenario)
      /\ Truthy(last.commit) /\ ~Truthy(last.replace)
      /\ AllAccepted(CallSent) )
    => /\ last.status = "ok"
       /\ \E now \in Clock :
             Commands(CallSent) =
                 <<"configure session ansible_" \o ToString(now), Line1, Line2,
                   "show session-config diffs", "commit", "end">>
       /\ ~last.value.isNone
       /\ last.value.text = Strip(history[Len(history) - 2].response)

(***************************************************************************)
(* C5.  On an EOS adapter at an elevated prompt, with a transport that     *)
(* answers every command, edit_config(candidate, commit=false,             *)
(* replace=true) returns after sending the session start, 'rollback        *)
(* clean-config', the candidate lines in order, the diff request and       *)
(* 'abort' (never 'commit'); and in any returned edit_config the rollback  *)
(* command is sent exactly when replace is true.                           *)
(***************************************************************************)
C5_SessionReplaceOrder ==
    ( /\ Edited /\ network_os = "eos"
      /\ PromptEndsInHash(last.prompt)
      /\ last.candidate = TextCandidate(Scenario)
      /\ AllAccepted(CallSent) )
    => /\ (~Truthy(last.commit) /\ Truthy(last.replace)) =>
             /\ last.status = "ok"
             /\ \E now \in Clock :
                   SubSeq(Commands(CallSent), 1, 6) =
                       <<"configure session ansible_" \o ToString(now),
                         "rollback clean-config", Line1, Line2,
                         "show session-config diffs", "abort">>
             /\ "commit" \notin Range(Commands(CallSent))
       /\ last.status = "ok" =>
             (Truthy(last.replace) <=>
                  "rollback clean-config" \in Range(Commands(CallSent)))

(***************************************************************************)
(* C6.  On IOS and ASA at an elevated prompt, edit_config returns only     *)
(* when commit and replace are false and the candidate is not empty; with  *)
(* commit or replace true (and a candidate given) it raises the            *)
(* unsupported-operation error and sends nothing, the history staying as   *)
(* it was.                                                                 *)
(***************************************************************************)
C6_DirectApplyRejects ==
    ( /\ Edited /\ network_os \in DirectAdapters
      /\ PromptEndsInHash(last.prompt) )
    => /\ last.status = "ok" =>
             /\ ~Truthy(last.commit) /\ ~Truthy(last.replace)
             /\ ~EmptyCandidate(last.candidate)
       /\ ( /\ Truthy(last.commit) \/ Truthy(last.replace)
            /\ last.candidate.kind # "none" ) =>
             /\ last.exc = UnsupportedCommit
             /\ CallSent = <<>>
             /\ history = last.pre.history

(***************************************************************************)
(* C7.  On every adapter, edit_config with an empty candidate (None, an    *)
(* empty text, a sequence without lines) raises the missing-candidate      *)
(* error and sends nothing.                                                *)
(***************************************************************************)
C7_EmptyCandidateRejected ==
    (Edited /\ EmptyCandidate(last.candidate)) =>
        /\ last.status = "raised"
        /\ last.exc.type \in {"ValueError", "AnsibleError"}
        /\ CallSent = <<>>

(***************************************************************************)
(* C8.  On every adapter, get_config with a source other than 'running'    *)
(* and 'startup' raises an invalid-argument / unsupported error and sends   *)
(* nothing, the history keeping its length.                                *)
(***************************************************************************)
C8_BogusSourceRejectedEverywhere ==
    (last.op = "get_config" /\ last.source \notin {"running", "startup"}) =>
        /\ last.status = "raised"
        /\ last.exc.type \in {"ValueError", "AnsibleError"}
        /\ CallSent = <<>>
        /\ Len(history) = Len(last.pre.history)

(***************************************************************************)
(* C9, as claimed.  get_config and edit_config of every adapter that can   *)
(* configure (IOS, ASA, EOS, VyOS): when the trimmed prompt does not end   *)
(* in '#' the call raises the privilege error and sends nothing; when it   *)
(* does, the wrapped method runs.                                          *)
(***************************************************************************)
C9_GuardOnEveryAdapter ==
    ( /\ last.op \in {"get_config", "edit_config"}
      /\ network_os \in {"ios", "asa", "eos", "vyos"} )
    => IF PromptEndsInHash(last.prompt)
       THEN last.exc # PrivilegeError
       ELSE last.exc = PrivilegeError /\ CallSent = <<>>

(***************************************************************************)
(* C9, amended.  get_config and edit_config of IOS, ASA and EOS: when the  *)
(* trimmed prompt does not end in '#' the call raises the privilege error, *)
(* sends nothing and leaves the history as it was; when it does, the       *)
(* wrapped method runs (no privilege error; a get_config of a valid source *)
(* hands its command to the transport).  VyOS get_config and edit_config   *)
(* are not guarded: they run at every prompt.                              *)
(***************************************************************************)
C9_PrivilegeGuard ==
    last.op \in {"get_config", "edit_config"} =>
        /\ network_os \in {"ios", "asa", "eos"} =>
              IF PromptEndsInHash(last.prompt)
              THEN /\ last.exc # PrivilegeError
                   /\ (last.op = "get_config" /\ last.source \in {"running", "startup"})
                         => Len(CallSent) = 1
              ELSE /\ last.exc = PrivilegeError
                   /\ CallSent = <<>>
                   /\ history = last.pre.history
        /\ network_os = "vyos" =>
              /\ last.exc # PrivilegeError
              /\ last.op = "get_config" => Len(CallSent) = 1

C9_Witness ==
    /\ last.op = "get_config" /\ network_os = "eos"
    /\ last.prompt = <<"r", "#", " ">>
    /\ last.source = "running"
    /\ last.status = "ok"
    /\ Commands(CallSent) = <<"show running-config">>

(***************************************************************************)
(* C10.  In every reachable state the history holds one entry for each     *)
(* command the transport executed (answered), internal commands of         *)
(* edit_config included, in the order of execution; a call only appends to *)
(* the history; and after N answered get calls on a fresh adapter the      *)
(* history has N entries, in call order.                                   *)
(***************************************************************************)
C10_HistoryInvariant ==
    /\ Len(history) = Len(Accepted(sent))
    /\ [i \in 1..Len(history) |-> history[i].command] = Commands(Accepted(sent))
    /\ IsPrefix(last.pre.history, history)
    /\ (~configured /\ AllAccepted(sent)) => Len(history) = gets

C10_Witness ==
    /\ network_os = "vyos"
    /\ Edited /\ last.status = "ok" /\ Truthy(last.commit)
    /\ Len(last.pre.history) = 1
    /\ Len(history) = 5
    /\ history[5].command = "commit"

(***************************************************************************)
(* Vocabulary of the properties about send_command and get.                *)
(***************************************************************************)
\* The last call went through send_command as its caller called it: get
\* leaves nolog at its default True.
Executed == last.op \in {"get", "send_command"}

Suppressed == NormalNolog(last.nolog) = "True"

\* The flags of the last send_command call, in the order they are checked.
CheckedArgs == <<last.sendonly, last.newline, last.prompt_retry_check>>

NothingDone == CallSent = <<>> /\ history = last.pre.history

(***************************************************************************)
(* C11.  When a command is executed with logging suppressed (nolog true,   *)
(* the default of send_command) and the transport answers, exactly one     *)
(* entry is appended to the history and it is the redaction placeholder;   *)
(* the literal pair of command and response is appended only when logging  *)
(* is not suppressed.                                                      *)
(***************************************************************************)
C11_SuppressedIsRedacted ==
    (Executed /\ last.status = "ok") =>
        history = Append(last.pre.history,
                         HistoryEntry(last.command, last.value.text, Suppressed))

CapabilityOps == {"get_capabilities", "get_operations"}

\* The call before the last one was a query of the same family and returned.
AfterReturned(ops) == last.pre.op \in ops /\ last.pre.status = "ok"

(***************************************************************************)
(* C12.  Capability discovery is memoized per adapter instance: a          *)
(* capability query (get_capabilities or get_operations) probes the device *)
(* at most once, returns a record whenever the transport answers, and a    *)
(* query that follows a returned query sends nothing, leaves the memoized  *)
(* record as it is and returns from that record.                           *)
(***************************************************************************)
C12_CapabilitiesMemoized ==
    last.op \in CapabilityOps =>
        /\ Len(CallSent) <= 1
        /\ AllAccepted(CallSent) =>
              /\ last.status = "ok"
              /\ last.result.kind # "none"
        /\ AfterReturned(CapabilityOps) =>
              /\ CallSent = <<>>
              /\ device_operations = last.pre.device_operations
        /\ (last.op = "get_operations" /\ last.status = "ok") =>
              last.result = OperationsLookup(device_operations, last.key)

(***************************************************************************)
(* C13.  Fact discovery is a strict cache: a get_facts call that follows a *)
(* returned get_facts call on the same instance, with any key or none,     *)
(* sends no command, returns, and returns from the same memoized map.      *)
(***************************************************************************)
C13_FactsCached ==
    (last.op = "get_facts" /\ AfterReturned({"get_facts"})) =>
        /\ CallSent = <<>>
        /\ last.status = "ok"
        /\ device_facts = last.pre.device_facts
        /\ last.result = FactsLookup(device_facts, last.key)

(***************************************************************************)
(* C15.  Whenever the command-timeout alarm fires, the timeout handler     *)
(* closes the connection: after the handler has run the connection is      *)
(* closed.                                                                 *)
(***************************************************************************)
C15_TimeoutCloses == last.op = "_alarm_handler" => closed

(***************************************************************************)
(* Vocabulary of the properties about the commands of edit_config.         *)
(***************************************************************************)
\* Send number i of the last call timed out: it raised, and so did whatever
\* was sent after it (the channel is dead).  A send that raised and was the
\* last one of the call may have timed out.
TimedOutAt(i) ==
    /\ i \in 1..Len(CallSent)
    /\ ~CallSent[i].ok
    /\ \A j \in (i + 1)..Len(CallSent) : ~CallSent[j].ok

\* The session of the last call had been entered when send number i was made.
SessionActiveAt(i) == i > 1 /\ CallSent[1].ok

SessionCommands ==
    {"rollback clean-config", "show session-config diffs", "commit", "abort"}

IsSessionCommand(cmd) == cmd \in SessionCommands \/ IsSessionStart(cmd)

\* What the EOS capability record reports for sessions once it is computed.
SessionsReported == ComputedOperations(use_sessions_env).sessions

(***************************************************************************)
(* C14.  On a staged-session adapter, when a command times out inside      *)
(* edit_config while the session is active, the adapter sends no further   *)
(* command: the send that timed out is the last send of the call (no       *)
(* abort, commit, diff or end follows it).                                 *)
(***************************************************************************)
C14_NothingAfterTimeout ==
    \A i \in 1..Len(CallSent) :
        ( /\ Edited /\ network_os \in StagedAdapters
          /\ SessionActiveAt(i) /\ TimedOutAt(i) )
        => Len(CallSent) = i

(***************************************************************************)
(* C16.  On an EOS adapter at an elevated prompt, with a transport that    *)
(* answers every command, edit_config(candidate, commit=true) of the text  *)
(* candidate interface Ethernet1 / description test / end returns, the     *)
(* last command sent is 'end', no earlier command is 'end', and when a     *)
(* session was started the command before 'end' is the 'commit' or 'abort' *)
(* that closed it.                                                         *)
(***************************************************************************)
C16_EndIsLast ==
    ( /\ Edited /\ network_os = "eos"
      /\ PromptEndsInHash(last.prompt)
      /\ last.candidate = TextCandidate(Scenario)
      /\ Truthy(last.commit) /\ ~Truthy(last.replace)
      /\ AllAccepted(CallSent) )
    => /\ last.status = "ok"
       /\ Len(CallSent) >= 2
       /\ CallSent[Len(CallSent)].command = "end"
       /\ \A i \in 1..(Len(CallSent) - 1) : CallSent[i].command # "end"
       /\ IsSessionStart(CallSent[1].command) =>
             CallSent[Len(CallSent) - 1].command \in {"commit", "abort"}

(***************************************************************************)
(* C17.  The netmiko adapter rejects get_config and edit_config            *)
(* unconditionally: for every argument combination and every prompt the    *)
(* call raises the error 'edit_config is not supported when using netmiko',*)
(* which names the adapter's device OS, sends nothing to the transport     *)
(* and leaves the history and the device as they were.                     *)
(***************************************************************************)
C17_NetmikoRejects ==
    (network_os = "netmiko" /\ last.op \in {"get_config", "edit_config"}) =>
        /\ last.status = "raised"
        /\ last.exc = NetmikoUnsupported
        /\ NothingDone
        /\ device = last.pre.device

C17_Witness ==
    /\ network_os = "netmiko"
    /\ Edited
    /\ PromptEndsInHash(last.prompt)
    /\ last.candidate = TextCandidate(Scenario)
    /\ ~Truthy(last.commit) /\ ~Truthy(last.replace)
    /\ last.exc = NetmikoUnsupported
    /\ last.pre.history # <<>>

(***************************************************************************)
(* C18.  On an EOS adapter at an elevated prompt whose capability record   *)
(* reports sessions unsupported, edit_config never sends a session         *)
(* command; with replace=true and a candidate it fails as unsupported      *)
(* (ValueError) without sending anything; with commit=true, replace=false  *)
(* and the text candidate interface Ethernet1 / description test / end, on *)
(* a transport that answers every command, it returns no diff after        *)
(* sending 'configure', the two lines in order and 'end'.                  *)
(***************************************************************************)
C18_FallbackWithoutSessions ==
    ( /\ Edited /\ network_os = "eos"
      /\ PromptEndsInHash(last.prompt)
      /\ SessionsReported = "False" )
    => /\ \A i \in 1..Len(CallSent) : ~IsSessionCommand(CallSent[i].command)
       /\ (Truthy(last.replace) /\ last.candidate.kind # "none") =>
             /\ last.status = "raised"
             /\ last.exc.type = "ValueError"
             /\ CallSent = <<>>
       /\ ( /\ Truthy(last.commit) /\ ~Truthy(last.replace)
            /\ last.candidate = TextCandidate(Scenario)
            /\ AllAccepted(CallSent) ) =>
             /\ last.status = "ok"
             /\ Commands(CallSent) = <<"configure", Line1, Line2, "end">>
             /\ last.value.isNone

\* The lines of a candidate as its caller gave them: the items of a
\* sequence, the lines of a text without the blank lines around it.
GivenLines(c) ==
    IF c.kind = "list" THEN c.lines ELSE RStripLines(LStripLines(c.lines))

(***************************************************************************)
(* C20.  On a direct-apply adapter (IOS, ASA), an edit_config(candidate,   *)
(* commit=false, replace=false) of a candidate that holds lines, when it   *)
(* returns, has sent exactly the candidate lines that are neither 'end'    *)
(* nor a comment starting with '!', in candidate order, then one final     *)
(* 'end', and nothing else.                                                *)
(***************************************************************************)
C20_DirectApplySends ==
    ( /\ Edited /\ network_os \in DirectAdapters
      /\ ~Truthy(last.commit) /\ ~Truthy(last.replace)
      /\ ~EmptyCandidate(last.candidate)
      /\ last.status = "ok" )
    => Commands(CallSent) = Loadable(GivenLines(last.candidate)) \o <<"end">>

(***************************************************************************)
(* C21.  Loading skips blank lines: on an adapter whose loader filters     *)
(* lines (IOS, ASA, EOS), at an elevated prompt and with a transport that  *)
(* answers every command, edit_config of the text candidate interface      *)
(* Ethernet1 / (empty line) / description test, with the flags the adapter *)
(* accepts, returns, never sends the empty line, and sends the two         *)
(* configuration lines in order.                                           *)
(***************************************************************************)
C21_BlankLinesSkipped ==
    ( /\ Edited /\ network_os \in {"ios", "asa", "eos"}
      /\ PromptEndsInHash(last.prompt)
      /\ last.candidate = TextCandidate(BlankScenario)
      /\ ~Truthy(last.replace)
      /\ Truthy(last.commit) <=> network_os = "eos"
      /\ AllAccepted(CallSent) )
    => /\ last.status = "ok"
       /\ \A i \in 1..Len(CallSent) : CallSent[i].command # ""
       /\ SelectSeq(Commands(CallSent), LAMBDA c : c \in {Line1, Line2})
              = <<Line1, Line2>>

\* Send number i of the last call was a candidate line of a direct-apply
\* call, and the transport rejected it after answering every earlier send.
DirectLineFailedAt(i) ==
    /\ i \in 1..Len(CallSent)
    /\ ~CallSent[i].ok
    /\ \A j \in 1..(i - 1) : CallSent[j].ok
    /\ CallSent[i].command # "end"

(***************************************************************************)
(* C22.  Direct apply is fail-fast: on IOS and ASA, when the send of a     *)
(* candidate line raises inside edit_config, that send is the last of the  *)
(* call (no later line and no 'end' is sent), the error of the line        *)
(* reaches the caller, and the lines sent before it stay applied on the    *)
(* device and logged in the history (there is no rollback).                *)
(***************************************************************************)
C22_DirectApplyFailFast ==
    \A i \in 1..Len(CallSent) :
        (Edited /\ network_os \in DirectAdapters /\ DirectLineFailedAt(i)) =>
            /\ Len(CallSent) = i
            /\ last.status = "raised"
            /\ last.exc = Exc("AnsibleConnectionFailure", CallSent[i].command)
            /\ Commands(CallSent) =
                   SubSeq(Loadable(CandidateLines(last.candidate)), 1, i)
            /\ Len(history) = Len(last.pre.history) + (i - 1)
            /\ device.running =
                   last.pre.device.running
                       \cup { CallSent[j].command : j \in 1..(i - 1) }

C22_Witness ==
    /\ Edited /\ network_os \in DirectAdapters
    /\ DirectLineFailedAt(2)
    /\ Commands(CallSent) = <<Line1, Line2>>
    /\ Line1 \in device.running
    /\ Line1 \notin last.pre.device.running

\* 'word' in text
Contains(text, word) ==
    \E i \in 1..(Len(text) - Len(word) + 1) :
        SubSeq(text, i, i + Len(word) - 1) = word

ProbeCommand == "show configuration session"

\* The four entries of the operations map all have the value b.
AllOperations(operations, b) ==
    /\ operations.set
    /\ operations.commit = b /\ operations.replace = b
    /\ operations.diff = b /\ operations.sessions = b

(***************************************************************************)
(* C23.  The EOS session capability is determined by the probe: a          *)
(* get_operations call that computes the record, on a transport that       *)
(* answers, sends the probe 'show configuration session' and stores        *)
(* supports_sessions, commit, replace and diff as true when the response   *)
(* holds no 'error' and as false when it does.                             *)
(***************************************************************************)
C23_ProbeDecides ==
    ( /\ last.op = "get_operations" /\ network_os = "eos"
      /\ ~last.pre.device_operations.set
      /\ AllAccepted(CallSent) )
    => /\ last.status = "ok"
       /\ Commands(CallSent) = <<ProbeCommand>>
       /\ Len(history) > Len(last.pre.history)
       /\ AllOperations(device_operations,
                        IF Contains(history[Len(history)].response, ErrorWord)
                        THEN "False" ELSE "True")

\* The positions of the send log at which a session was started.
SessionStarts == { i \in 1..Len(sent) : sent[i].ok /\ IsSessionStart(sent[i].command) }

CallHistory == SubSeq(history, Len(last.pre.history) + 1, Len(history))

\* The transport answered every command of the last call, on EOS with the
\* JSON document the fact commands are answered with.
FactsAnswered ==
    /\ AllAccepted(CallSent)
    /\ network_os = "eos" =>
          \A i \in 1..Len(CallHistory) : CallHistory[i].response = JsonFacts

(***************************************************************************)
(* C25.  get_facts without a key terminates and returns the full facts map *)
(* on every adapter: when the transport answers, the call returns the map  *)
(* it has memoized after sending a bounded number of queries (at most the  *)
(* two fact commands of the adapter, none when the map was memoized        *)
(* before).                                                                *)
(***************************************************************************)
C25_FactsTerminate ==
    (last.op = "get_facts" /\ last.key = "None" /\ FactsAnswered) =>
        /\ last.status = "ok"
        /\ last.result = FactsLookup(device_facts, "None")
        /\ device_facts.set
        /\ Len(CallSent) <= 2
        /\ last.pre.device_facts.set => CallSent = <<>>

\* The diff request of a staged-session adapter.
DiffRequest ==
    IF network_os = "eos" THEN "show session-config diffs" ELSE "compare"

\* The candidate lines a staged-session adapter loads: every line on VyOS,
\* the lines that are neither 'end' nor a comment on EOS.
StagedLines(candidate) ==
    IF network_os = "eos" THEN Loadable(CandidateLines(candidate))
    ELSE CandidateLines(candidate)

\* The positions of a command among the sends of the last call.
SentAt(cmd) == { i \in 1..Len(CallSent) : CallSent[i].command = cmd }

(***************************************************************************)
(* C26.  On a staged-session adapter, edit_config sends 'commit' only when *)
(* commit is true, every earlier send of the call was answered, the        *)
(* candidate lines were all loaded in order and the diff request is the    *)
(* send just before it; 'commit' and the abort command are never both sent *)
(* in one call; and a call that returns has sent exactly one of them,      *)
(* once.                                                                   *)
(***************************************************************************)
C26_CommitOnlyAfterLoad ==
    (Edited /\ network_os \in StagedAdapters) =>
        /\ \A i \in SentAt("commit") :
              /\ Truthy(last.commit)
              /\ \A j \in 1..(i - 1) : CallSent[j].ok
              /\ i >= 3
              /\ CallSent[i - 1].command = DiffRequest
              /\ LET lines == StagedLines(last.candidate)
                 IN SubSeq(Commands(CallSent), i - 1 - Len(lines), i - 2) = lines
        /\ ~(SentAt("commit") # {} /\ SentAt(AbortCommand) # {})
        /\ last.status = "ok" =>
              Cardinality(SentAt("commit") \cup SentAt(AbortCommand)) = 1

C26_Witness ==
    /\ Edited /\ network_os = "vyos"
    /\ Truthy(last.commit)
    /\ last.status = "ok"
    /\ Commands(CallSent) =
           <<"configure", Line1, Line2, "end", "compare", "commit">>
    /\ Line1 \in device.running

\* The VyOS commands that leave configuration mode.
ExitCommands == {"exit", "exit discard"}

(***************************************************************************)
(* C27.  VyOS edit_config never leaves the connection in configuration     *)
(* mode: a call that has sent 'configure', on a transport that answers     *)
(* every command, sends a command that exits configuration mode ('exit'    *)
(* or 'exit discard') after it, for commit=true as well as commit=false.   *)
(***************************************************************************)
C27_VyosLeavesConfigMode ==
    ( /\ Edited /\ network_os = "vyos"
      /\ CallSent # <<>>
      /\ AllAccepted(CallSent) )
    => /\ CallSent[1].command = "configure"
       /\ \E i \in 2..Len(CallSent) : CallSent[i].command \in ExitCommands

\* The last call was a run of the network_config module.
ModuleRun == last.op = "network_config"

(***************************************************************************)
(* C28.  The network_config module never commits in check mode: for every  *)
(* capability record and every value of the commit and replace parameters, *)
(* a run in check mode either makes no edit_config call (always so when    *)
(* the record does not report commit) or calls edit_config with            *)
(* commit=false; a call with commit=true is made only by a run outside     *)
(* check mode.                                                             *)
(***************************************************************************)
C28_CheckModeNeverCommits ==
    ModuleRun =>
        /\ last.run.check_mode =>
              \/ ~last.run.called
              \/ last.run.call_commit = "False"
        /\ (last.run.check_mode /\ last.run.can_commit # "True") => ~last.run.called
        /\ (last.run.called /\ last.run.call_commit = "True") => ~last.run.check_mode
        /\ last.run.called => sent = last.pre.sent

C28_Witness ==
    /\ ModuleRun
    /\ last.run.check_mode
    /\ last.run.commit = "True"
    /\ last.run.can_commit = "True"
    /\ last.run.called
    /\ last.run.call_commit = "False"

=============================================================================
